---- MODULE Spec2Model ----
(***************************************************************************)
(* Model of src/core/comment.go: the comments table, the comment_votes     *)
(* ledger, the denormalised counters, and the request handlers AddComment, *)
(* GetComment, Save, Delete, Vote, DeleteVote, ChangeVote and              *)
(* ChangeUserGroup.  Every request runs on a worker; a worker's step holds *)
(* at most one round trip to the store (a query, a statement or a          *)
(* transaction) together with the in-memory code around it, up to the next *)
(* round trip; a value read from the clock is read in the step before the  *)
(* statement that stores it.  Workers share nothing but the store: a       *)
(* request loads its own *Comment with GetComment, calls one method on it  *)
(* and returns.  No guard holds a running request back: the bounds of the  *)
(* model are guards on the sending of new requests.                        *)
(***************************************************************************)
EXTENDS Integers, Sequences, FiniteSets, Bags, TLC

(* ------------------------------ bounds -------------------------------- *)

\* Comments the store may hold in the specifications with the vote ledger.
MaxComments == 1
\* Comments the store may hold in the tree specifications.
MaxTreeComments == 3
\* Rows ever inserted into comment_votes (the auto-increment id stops here).
MaxVoteRows == 2
\* Vote requests are sent while the counters (tallies, reputation) are within
\* -MaxTally .. MaxTally.
MaxTally == 2
\* maxCommentDepth of the code (comment.go:225), scaled to the model.
maxCommentDepth == 2
\* maxCommentBodyLength of the code (comment.go:210), scaled to the model.
maxCommentBodyLength == 2

Workers == {"w1", "w2"}
Users == {1, 2}
\* Timestamps; 0 is the NULL time.
Times == {1, 2}
\* uid.ID zero value, and the NULL of a uid.NullID column.
ZeroID == 0

\* Bodies a caller may submit: one within the limit, one over it.
Bodies == {<<"a">>, [i \in 1..(maxCommentBodyLength + 1) |-> "b"]}

\* UserGroup values; "other" stands for any value outside the enumeration.
UserGroupNaN == "nan"
UserGroupNormal == "normal"
UserGroupAdmins == "admins"
UserGroupMods == "mods"
UserGroups == {UserGroupNaN, UserGroupNormal, UserGroupAdmins, UserGroupMods, "other"}

(* ------------------------- external collaborators --------------------- *)

\* UserMod(community, user): user 2 moderates the community of the post.
UserMod(u) == u = 2
\* GetUser(user).Admin: user 1 is a site admin.
UserAdmin(u) == u = 1
\* users.username
Username(u) == "user" \o ToString(u)
\* GetMutedUsers(viewer): user 1 has muted user 2.
MutedBy(viewer) == IF viewer = 1 THEN {2} ELSE {}

\* post.AuthorID: user 1 wrote the post.
PostAuthorID == 1

(* ------------------------------ helpers ------------------------------- *)

\* utils.TruncateUnicodeString: the first n code points of s.
TruncateUnicodeString(s, n) == IF Len(s) <= n THEN s ELSE SubSeq(s, 1, n)

\* json.Marshal of a []uid.ID: the token sequence [ "id" , "id" ... ].
RECURSIVE JSONElems(_)
JSONElems(ids) ==
    IF ids = <<>> THEN <<>>
    ELSE IF Len(ids) = 1 THEN <<ToString(Head(ids))>>
    ELSE <<ToString(Head(ids)), ",">> \o JSONElems(Tail(ids))
JSONMarshal(ids) == <<"[">> \o JSONElems(ids) \o <<"]">>

\* json.Unmarshal into a []uid.ID: the ids between the brackets.
ParseID(tok) == CHOOSE i \in 0..(MaxComments + MaxTreeComments + 1) : ToString(i) = tok
RECURSIVE JSONParseElems(_)
JSONParseElems(toks) ==
    IF toks = <<>> THEN <<>>
    ELSE IF Head(toks) = "," THEN JSONParseElems(Tail(toks))
    ELSE <<ParseID(Head(toks))>> \o JSONParseElems(Tail(toks))
JSONUnmarshal(toks) == JSONParseElems(SubSeq(toks, 2, Len(toks) - 1))

\* msql.NullBool
NullBool(valid, b) == [Valid |-> valid, Bool |-> b]

Range(s) == {s[i] : i \in 1..Len(s)}
InTally(n) == n \in (0 - MaxTally)..MaxTally

(* ------------------------------- state -------------------------------- *)

VARIABLES
    comments,        \* the comments table: row i has id i
    commentVotes,    \* the comment_votes table (the vote ledger)
    nextVoteID,      \* the auto-increment id of comment_votes
    postsComments,   \* posts_comments: the profile-activity index
    commentReplies,  \* comment_replies: <<ancestor, reply>> edges
    userNoComments,  \* users.no_comments
    userPoints,      \* users.points
    postNoComments,  \* posts.no_comments
    postLocked,      \* the post's locked flag
    clock,           \* the last value time.Now() returned
    pc,              \* where each worker's request stands
    obj,             \* the *Comment each worker's request holds
    req,             \* the arguments and locals of each worker's request
    ret,             \* what the step just taken returned to its caller, if it did:
                     \* the error ("ok" for nil) and the comment as the request left it
    tasks,           \* the detached notification tasks the handlers have started
                     \* (a bag: one entry per goroutine)
    userRecords,     \* the users the batch author lookup returns a record for
    snap             \* history variable: the store as it was before a Vote whose
                     \* retraction is being followed (RoundTripSpec); else NoSnap

dbVars == <<comments, commentVotes, nextVoteID, postsComments, commentReplies,
            userNoComments, userPoints, postNoComments>>
envVars == <<postLocked, clock, tasks, userRecords>>
workerVars == <<pc, obj, req, ret>>
vars == <<dbVars, envVars, workerVars, snap>>

\* The zero value of Comment.
NoComment ==
    [ID |-> ZeroID, AuthorID |-> ZeroID, AuthorUsername |-> "", PostedAs |-> UserGroupNaN,
     ParentID |-> ZeroID, Depth |-> 0, NumReplies |-> 0, NumRepliesDirect |-> 0,
     Ancestors |-> <<>>, Body |-> <<>>, Upvotes |-> 0, Downvotes |-> 0, Points |-> 0,
     EditedAt |-> 0, DeletedAt |-> 0, DeletedBy |-> ZeroID, DeletedAs |-> UserGroupNaN,
     Author |-> ZeroID, IsAuthorMuted |-> FALSE,
     ViewerVoted |-> NullBool(FALSE, FALSE), ViewerVotedUp |-> NullBool(FALSE, FALSE)]

\* The locals of a request that has none.
NoReq ==
    [user |-> ZeroID, up |-> FALSE, id |-> ZeroID, dbUp |-> FALSE, g |-> UserGroupNaN,
     parent |-> NoComment, ancestors |-> <<>>, body |-> <<>>,
     cont |-> "", viewer |-> ZeroID, now |-> 0]

CommentIDs == 1..Len(comments)

(* --------------------------- retrieval -------------------------------- *)

\* Comment.Deleted
Deleted(c) == c.DeletedAt # 0

\* Mutant of stripDeletedInfo: the per-viewer vote flags are left as scanned.
stripDeletedInfoKeepsVoteFlags(c) ==
    IF ~Deleted(c) THEN c
    ELSE [c EXCEPT !.AuthorID = ZeroID,
                   !.AuthorUsername = "Hidden",
                   !.PostedAs = UserGroupNaN,
                   !.Body = <<"[Deleted comment]">>,
                   !.Author = ZeroID]

\* Comment.stripDeletedInfo
stripDeletedInfo(c) ==
    IF ~Deleted(c) THEN c
    ELSE [c EXCEPT !.AuthorID = ZeroID,
                   !.AuthorUsername = "Hidden",
                   !.PostedAs = UserGroupNaN,
                   !.Body = <<"[Deleted comment]">>,
                   !.ViewerVoted.Valid = FALSE,
                   !.ViewerVotedUp.Valid = FALSE,
                   !.Author = ZeroID]

\* The comment_votes rows of (comment, user).
VoteRows(cid, u) == {v \in commentVotes : v.comment_id = cid /\ v.user_id = u}

\* rows.Scan of one row of buildSelectCommentsQuery; viewer is ZeroID when nil.
ScanRow(row, viewer) ==
    LET joined == VoteRows(row.id, viewer)
        c0 == [NoComment EXCEPT
                 !.ID = row.id, !.AuthorID = row.user_id, !.AuthorUsername = row.username,
                 !.PostedAs = row.user_group, !.ParentID = row.parent_id,
                 !.Depth = row.depth, !.NumReplies = row.no_replies,
                 !.NumRepliesDirect = row.no_replies_direct,
                 !.Ancestors = IF row.ancestors = <<>> THEN <<>>
                               ELSE JSONUnmarshal(row.ancestors),
                 !.Body = row.body, !.Upvotes = row.upvotes, !.Downvotes = row.downvotes,
                 !.Points = row.points, !.EditedAt = row.edited_at,
                 !.DeletedAt = row.deleted_at, !.DeletedAs = row.deleted_as]
    IN  IF viewer = ZeroID THEN c0
        ELSE [c0 EXCEPT
                !.ViewerVoted = NullBool(TRUE, joined # {}),
                !.ViewerVotedUp = IF joined = {} THEN NullBool(FALSE, FALSE)
                                  ELSE NullBool(TRUE, (CHOOSE v \in joined : TRUE).up)]

\* The mute loop of scanComments.
MarkMuted(c, viewer) ==
    IF viewer # ZeroID /\ c.AuthorID \in MutedBy(viewer)
    THEN [c EXCEPT !.IsAuthorMuted = TRUE] ELSE c

\* GetUsersIDs(ids): the records of those of the users that have one.
GetUsersIDs(ids) == ids \cap userRecords

\* populateCommentAuthors, for one comment: a comment that is not deleted has its
\* author looked up, and gets the record whose id is its author id if the lookup
\* returned one; `found` is never false, so nothing else happens if it did not.
populateCommentAuthors(c) ==
    IF Deleted(c) THEN c
    ELSE IF c.AuthorID \in GetUsersIDs({c.AuthorID}) THEN [c EXCEPT !.Author = c.AuthorID]
    ELSE c

\* scanComments for the row of one id, when nothing changes between its queries.
scanComments(row, viewer) ==
    stripDeletedInfo(populateCommentAuthors(MarkMuted(ScanRow(row, viewer), viewer)))

\* GetComment when nothing changes between its queries: the comment, or NoComment
\* for errCommentNotFound.
GetComment(id, viewer) ==
    IF id \in CommentIDs THEN scanComments(comments[id], viewer) ELSE NoComment

(* ------------------------------ Init ---------------------------------- *)

\* No Vote is being followed.
NoSnap ==
    [phase |-> "off", user |-> ZeroID, comment |-> ZeroID, votes |-> {},
     upvotes |-> 0, downvotes |-> 0, points |-> 0,
     userPoints |-> [u \in Users |-> 0], synced |-> TRUE]

\* No request returned in the step just taken.
NoRet == [w \in Workers |-> [err |-> "", c |-> NoComment]]

Init ==
    /\ comments = <<>>
    /\ commentVotes = {}
    /\ nextVoteID = 1
    /\ postsComments = {}
    /\ commentReplies = {}
    /\ userNoComments = [u \in Users |-> 0]
    /\ userPoints = [u \in Users |-> 0]
    /\ postNoComments = 0
    /\ postLocked = FALSE
    /\ clock = 1
    /\ tasks = EmptyBag
    /\ userRecords = Users
    /\ pc = [w \in Workers |-> "idle"]
    /\ obj = [w \in Workers |-> NoComment]
    /\ req = [w \in Workers |-> NoReq]
    /\ ret = NoRet
    /\ snap = NoSnap

\* A request returns err, leaving its comment as c: the worker is idle again and
\* the request's locals and its comment are gone.
Return(w, err, c) ==
    /\ pc' = [pc EXCEPT ![w] = "idle"]
    /\ req' = [req EXCEPT ![w] = NoReq]
    /\ obj' = [obj EXCEPT ![w] = NoComment]
    /\ ret' = [NoRet EXCEPT ![w] = [err |-> err, c |-> c]]

\* A request goes on to its next round trip with these locals and this comment.
Goto(w, label, locals, c) ==
    /\ pc' = [pc EXCEPT ![w] = label]
    /\ req' = [req EXCEPT ![w] = locals]
    /\ obj' = [obj EXCEPT ![w] = c]
    /\ ret' = NoRet

\* Workers in the middle of the request step `label`.
At(label) == {w \in Workers : pc[w] = label}

(* ------------------------ addComment: its statements ------------------ *)

\* Mutant of NewCommentRow: the reply gets the depth of its parent.
NewCommentRowDepthOfParent(id, author, parent, ancestors, body) ==
    [id |-> id,
     user_id |-> author,
     username |-> Username(author),
     user_group |-> UserGroupNormal,
     parent_id |-> IF parent.ID # ZeroID THEN parent.ID ELSE ZeroID,
     depth |-> IF parent.ID # ZeroID THEN parent.Depth ELSE 0,
     no_replies |-> 0,
     no_replies_direct |-> 0,
     ancestors |-> IF ancestors # <<>> THEN JSONMarshal(ancestors) ELSE <<>>,
     body |-> body,
     upvotes |-> 0, downvotes |-> 0, points |-> 0,
     edited_at |-> 0, deleted_at |-> 0, deleted_by |-> ZeroID,
     deleted_as |-> UserGroupNaN]

\* The row addComment inserts.
NewCommentRow(id, author, parent, ancestors, body) ==
    [id |-> id,
     user_id |-> author,
     username |-> Username(author),
     user_group |-> UserGroupNormal,
     parent_id |-> IF parent.ID # ZeroID THEN parent.ID ELSE ZeroID,
     depth |-> IF parent.ID # ZeroID THEN parent.Depth + 1 ELSE 0,
     no_replies |-> 0,
     no_replies_direct |-> 0,
     ancestors |-> IF ancestors # <<>> THEN JSONMarshal(ancestors) ELSE <<>>,
     body |-> body,
     upvotes |-> 0, downvotes |-> 0, points |-> 0,
     edited_at |-> 0, deleted_at |-> 0, deleted_by |-> ZeroID,
     deleted_as |-> UserGroupNaN]

\* Mutant of IncrRepliesDirect: the WHERE clause names parent_id instead of id.
IncrRepliesDirectWrongColumn(rows, pid) ==
    [i \in DOMAIN rows |->
        IF rows[i].parent_id = pid
        THEN [rows[i] EXCEPT !.no_replies_direct = @ + 1] ELSE rows[i]]

\* UPDATE comments SET no_replies_direct = no_replies_direct + 1 WHERE id = ?
IncrRepliesDirect(rows, pid) ==
    [i \in DOMAIN rows |->
        IF rows[i].id = pid
        THEN [rows[i] EXCEPT !.no_replies_direct = @ + 1] ELSE rows[i]]

\* Mutant of IncrReplies: only the immediate parent's counter is incremented.
IncrRepliesParentOnly(rows, ancestors) ==
    [i \in DOMAIN rows |->
        IF ancestors # <<>> /\ rows[i].id = ancestors[Len(ancestors)]
        THEN [rows[i] EXCEPT !.no_replies = @ + 1] ELSE rows[i]]

\* UPDATE comments SET no_replies = no_replies + 1 WHERE id IN (ancestors)
IncrReplies(rows, ancestors) ==
    [i \in DOMAIN rows |->
        IF rows[i].id \in Range(ancestors)
        THEN [rows[i] EXCEPT !.no_replies = @ + 1] ELSE rows[i]]

\* Mutant of AncestorsOf: the parent is put first instead of last.
AncestorsOfParentFirst(parent) == <<parent.ID>> \o parent.Ancestors

\* The ancestor path addComment computes from the parent it read.
AncestorsOf(parent) == Append(parent.Ancestors, parent.ID)

\* Mutant of ParentCheck: the depth test is off by one.
ParentCheckOffByOne(parent) ==
    IF parent.ID = ZeroID THEN "errCommentNotFound"
    ELSE IF Deleted(parent) THEN "comment-reply-to-deleted"
    ELSE IF parent.Depth > maxCommentDepth THEN "comment-max-depth-reached"
    ELSE ""

\* The parent checks of addComment: "" when the reply may be inserted.
ParentCheck(parent) ==
    IF parent.ID = ZeroID THEN "errCommentNotFound"
    ELSE IF Deleted(parent) THEN "comment-reply-to-deleted"
    ELSE IF parent.Depth = maxCommentDepth THEN "comment-max-depth-reached"
    ELSE ""

\* A detached notification task that has not run yet.
Task(kind, to, cid) == [kind |-> kind, to |-> to, comment |-> cid, done |-> "pending"]

\* Mutant of AddCommentNotifications: the tasks name the id after the new one.
AddCommentNotificationsNextID(parent, author, id) ==
    (IF parent.ID # ZeroID /\ parent.AuthorID # author
     THEN {Task("reply", parent.AuthorID, id + 1)} ELSE {})
    \cup
    (IF PostAuthorID # author /\ (parent.ID = ZeroID \/ parent.AuthorID # PostAuthorID)
     THEN {Task("new_comment", PostAuthorID, id + 1)} ELSE {})

\* The goroutines addComment starts after its transaction: the reply notification
\* and the new-comment notification.
AddCommentNotifications(parent, author, id) ==
    (IF parent.ID # ZeroID /\ parent.AuthorID # author
     THEN {Task("reply", parent.AuthorID, id)} ELSE {})
    \cup
    (IF PostAuthorID # author /\ (parent.ID = ZeroID \/ parent.AuthorID # PostAuthorID)
     THEN {Task("new_comment", PostAuthorID, id)} ELSE {})

(* ----------------------------- GetComment ----------------------------- *)

\* GetComment returns c to its caller.  The handler of a request holds the comment
\* (cont "load"); addComment checks the parent it has read and goes on to its
\* transaction (cont "parent"); addComment returns the comment it inserted (cont
\* "new").
GetCommentReturns(w, locals, c) ==
    IF locals.cont = "load" THEN Goto(w, "loaded", NoReq, c)
    ELSE IF locals.cont = "new" THEN Return(w, "ok", c)
    ELSE IF ParentCheck(c) # "" THEN Return(w, ParentCheck(c), NoComment)
    ELSE Goto(w, "add_tx",
              [locals EXCEPT !.cont = "", !.parent = c, !.ancestors = AncestorsOf(c)],
              NoComment)

\* scanComments after the mute loop: populateCommentAuthors queries the author
\* records unless the comment is deleted (no author id to look up), then
\* stripDeletedInfo runs and GetComment returns.
GetCommentMuted(w, locals, c) ==
    IF ~Deleted(c) THEN Goto(w, "get_authors", locals, c)
    ELSE GetCommentReturns(w, locals, stripDeletedInfo(c))

\* The SELECT of GetComment(id, viewer) and the scan of its row: no row gives
\* errCommentNotFound; for a viewer the mute list is queried next.
GetCommentSelect(w, locals, id) ==
    IF id \notin CommentIDs THEN Return(w, "errCommentNotFound", NoComment)
    ELSE LET c == ScanRow(comments[id], locals.viewer)
         IN  IF locals.viewer # ZeroID THEN Goto(w, "get_mutes", locals, c)
             ELSE GetCommentMuted(w, locals, c)

\* A handler loads the comment it will act on, for a viewer (ZeroID: none): the
\* SELECT of GetComment.
Load(w, id, viewer) ==
    /\ pc[w] = "idle"
    /\ GetCommentSelect(w, [NoReq EXCEPT !.cont = "load", !.viewer = viewer], id)
    /\ UNCHANGED <<dbVars, envVars>>

\* GetMutedUsers(viewer) and the mute loop of scanComments.
GetCommentMutes(w) ==
    /\ pc[w] = "get_mutes"
    /\ GetCommentMuted(w, req[w], MarkMuted(obj[w], req[w].viewer))
    /\ UNCHANGED <<dbVars, envVars>>

\* GetUsersIDs(author ids) in populateCommentAuthors, then stripDeletedInfo.
GetCommentAuthors(w) ==
    /\ pc[w] = "get_authors"
    /\ GetCommentReturns(w, req[w], stripDeletedInfo(populateCommentAuthors(obj[w])))
    /\ UNCHANGED <<dbVars, envVars>>

\* The SELECT of the GetComment that starts a request (a handler's, or the parent
\* read of addComment) returns an error.
LoadFails(w) ==
    /\ pc[w] = "idle"
    /\ Return(w, "db-error", NoComment)
    /\ UNCHANGED <<dbVars, envVars>>

\* A later query of GetComment (the SELECT of addComment's closing read,
\* GetMutedUsers, GetUsersIDs) returns an error: GetComment returns no comment.
GetCommentFails(w) ==
    /\ pc[w] \in {"add_get", "get_mutes", "get_authors"}
    /\ Return(w, "db-error", NoComment)
    /\ UNCHANGED <<dbVars, envVars>>

\* The handler of a read request returns the comment it loaded.
Respond(w) ==
    /\ pc[w] = "loaded"
    /\ Return(w, "ok", obj[w])
    /\ UNCHANGED <<dbVars, envVars>>

\* addComment requests that have not inserted their row yet.
Adding == {v \in Workers : pc[v] = "add_tx" \/ req[v].cont = "parent"}

\* addComment up to its next query: truncate the body; without a parent (parentID
\* ZeroID) go on to the transaction, else the SELECT of the parent's GetComment.
AddCommentBegin(w, author, parentID, body) ==
    /\ pc[w] = "idle"
    /\ LET locals == [NoReq EXCEPT
                        !.user = author,
                        !.body = TruncateUnicodeString(body, maxCommentBodyLength)]
       IN  IF parentID = ZeroID
           THEN Goto(w, "add_tx", locals, NoComment)
           ELSE GetCommentSelect(w, [locals EXCEPT !.cont = "parent"], parentID)
    /\ UNCHANGED <<dbVars, envVars>>

(* ----------------------------- addComment ----------------------------- *)

\* The transaction of addComment, and the goroutines started after it.
AddCommentTx(w) ==
    /\ pc[w] = "add_tx"
    /\ LET id == Len(comments) + 1
           r == req[w]
           row == NewCommentRow(id, r.user, r.parent, r.ancestors, r.body)
           inserted == Append(comments, row)
       IN  /\ comments' = IF r.parent.ID # ZeroID
                          THEN IncrReplies(IncrRepliesDirect(inserted, r.parent.ID),
                                           r.ancestors)
                          ELSE inserted
           /\ postNoComments' = postNoComments + 1
           /\ postsComments' = postsComments \cup {<<id, r.user>>}
           /\ commentReplies' = commentReplies \cup {<<v, id>> : v \in Range(r.ancestors)}
           /\ userNoComments' = [userNoComments EXCEPT ![r.user] = @ + 1]
           /\ tasks' = tasks (+) SetToBag(AddCommentNotifications(r.parent, r.user, id))
           /\ Goto(w, "add_get", [r EXCEPT !.id = id], NoComment)
    /\ UNCHANGED <<commentVotes, nextVoteID, userPoints, postLocked, clock, userRecords>>

\* addComment returns GetComment(id, nil): the SELECT of that GetComment.
AddCommentGet(w) ==
    /\ pc[w] = "add_get"
    /\ GetCommentSelect(w, [req[w] EXCEPT !.cont = "new"], req[w].id)
    /\ UNCHANGED <<dbVars, envVars>>

\* A transaction, a statement or a query of a method or of addComment returns an
\* error: a transaction is rolled back, and the request returns the error with its
\* comment as it is in memory.
StatementFails(w) ==
    /\ pc[w] \in {"add_tx", "vote_tx", "dv_read", "dv_tx", "cv_read", "cv_tx", "del_tx",
                  "save_exec", "cug_exec"}
    /\ Return(w, "db-error", obj[w])
    /\ UNCHANGED <<dbVars, envVars>>

(* ------------------------- the vote ledger ---------------------------- *)

\* UPDATE comments SET ... WHERE id = ?  (f is the SET clause)
UpdateComment(rows, id, f(_)) ==
    [i \in DOMAIN rows |-> IF rows[i].id = id THEN f(rows[i]) ELSE rows[i]]

\* Mutant of VoteSet: a downvote adds a point instead of taking one.
VoteSetPointAlwaysUp(row, up) ==
    IF up THEN [row EXCEPT !.points = @ + 1, !.upvotes = @ + 1]
    ELSE [row EXCEPT !.points = @ + 1, !.downvotes = @ + 1]

\* Vote: points = points + point, upvotes + 1 or downvotes + 1
VoteSet(row, up) ==
    IF up THEN [row EXCEPT !.points = @ + 1, !.upvotes = @ + 1]
    ELSE [row EXCEPT !.points = @ - 1, !.downvotes = @ + 1]

\* DeleteVote: points = points + point, upvotes - 1 or downvotes - 1
DeleteVoteSet(row, up) ==
    IF up THEN [row EXCEPT !.points = @ - 1, !.upvotes = @ - 1]
    ELSE [row EXCEPT !.points = @ + 1, !.downvotes = @ - 1]

\* Mutant of ChangeVoteSet: the points move by 1 instead of 2.
ChangeVoteSetByOne(row, dbUp) ==
    IF dbUp THEN [row EXCEPT !.points = @ - 1, !.upvotes = @ - 1, !.downvotes = @ + 1]
    ELSE [row EXCEPT !.points = @ + 1, !.upvotes = @ + 1, !.downvotes = @ - 1]

\* ChangeVote: points = points + points, one column down and the other up
ChangeVoteSet(row, dbUp) ==
    IF dbUp THEN [row EXCEPT !.points = @ - 2, !.upvotes = @ - 1, !.downvotes = @ + 1]
    ELSE [row EXCEPT !.points = @ + 2, !.upvotes = @ + 1, !.downvotes = @ - 1]

\* The in-memory mirror of Vote (comment.go:473-481).
VoteMirror(c, up) ==
    [c EXCEPT !.Upvotes = IF up THEN @ + 1 ELSE @,
              !.Downvotes = IF up THEN @ ELSE @ + 1,
              !.Points = @ + (IF up THEN 1 ELSE -1),
              !.ViewerVoted = NullBool(TRUE, TRUE),
              !.ViewerVotedUp = NullBool(TRUE, up)]

\* The in-memory mirror of DeleteVote (comment.go:541-548).
DeleteVoteMirror(c, up) ==
    [c EXCEPT !.Upvotes = IF up THEN @ - 1 ELSE @,
              !.Downvotes = IF up THEN @ ELSE @ - 1,
              !.Points = @ + (IF up THEN -1 ELSE 1),
              !.ViewerVoted.Valid = FALSE,
              !.ViewerVotedUp.Valid = FALSE]

\* The in-memory mirror of ChangeVote (comment.go:603-611).
ChangeVoteMirror(c, dbUp, up) ==
    [c EXCEPT !.Upvotes = IF dbUp THEN @ - 1 ELSE @ + 1,
              !.Downvotes = IF dbUp THEN @ + 1 ELSE @ - 1,
              !.Points = @ + (IF dbUp THEN -2 ELSE 2),
              !.ViewerVotedUp = NullBool(TRUE, up)]

\* The tallies of every row are within the model's range.
TalliesInRange(rows) ==
    \A i \in DOMAIN rows :
        InTally(rows[i].upvotes) /\ InTally(rows[i].downvotes) /\ InTally(rows[i].points)

\* The tallies and the reputation points in the store are within the model's range.
CountersInRange == TalliesInRange(comments) /\ \A u \in Users : InTally(userPoints[u])

\* The checks the three vote methods start with: c.Deleted(), then IsPostLocked.
\* "" when both pass.
VoteChecks(c) ==
    IF Deleted(c) THEN "errCommentDeleted"
    ELSE IF postLocked THEN "errPostLocked"
    ELSE ""

\* incrementUserPoints(author, delta): the adjustment is applied, or it fails and
\* the failure is ignored.
incrementUserPoints(author, delta) ==
    \/ /\ author \in Users
       /\ userPoints' = [userPoints EXCEPT ![author] = @ + delta]
    \/ userPoints' = userPoints

\* Mutant of AdjustsPoints: the author's own votes count too.
AdjustsPointsOwnVotes(c, user, up) == up

\* if up && !c.AuthorID.EqualsTo(user): Vote and DeleteVote adjust the author's
\* points for an up vote of another user.
AdjustsPoints(c, user, up) == up /\ c.AuthorID # user

\* Comment.Vote up to its transaction: c.Deleted(), then the query IsPostLocked.
VoteBegin(w, user, up) ==
    /\ pc[w] = "loaded"
    /\ IF VoteChecks(obj[w]) # ""
       THEN Return(w, VoteChecks(obj[w]), obj[w])
       ELSE Goto(w, "vote_tx", [NoReq EXCEPT !.user = user, !.up = up], obj[w])
    /\ UNCHANGED <<dbVars, envVars>>

\* The query IsPostLocked of a vote method returns an error.
IsPostLockedFails(w) ==
    /\ pc[w] = "loaded"
    /\ ~Deleted(obj[w])
    /\ Return(w, "db-error", obj[w])
    /\ UNCHANGED <<dbVars, envVars>>

\* Mutant of IsErrDuplicateErr: the ledger has no unique key on (comment, voter).
IsErrDuplicateErrNever(cid, user) == FALSE

\* The INSERT INTO comment_votes fails on the unique key of (comment_id, user_id).
IsErrDuplicateErr(cid, user) == VoteRows(cid, user) # {}

\* The transaction of Comment.Vote and the in-memory mirror after it.
VoteTx(w) ==
    /\ pc[w] = "vote_tx"
    /\ LET c == obj[w]
           r == req[w]
           voted(row) == VoteSet(row, r.up)
       IN  IF IsErrDuplicateErr(c.ID, r.user)
           THEN /\ Return(w, "already-voted", c)
                /\ UNCHANGED <<comments, commentVotes, nextVoteID>>
           ELSE /\ commentVotes' = commentVotes \cup
                       {[id |-> nextVoteID, comment_id |-> c.ID, user_id |-> r.user,
                         up |-> r.up]}
                /\ nextVoteID' = nextVoteID + 1
                /\ comments' = UpdateComment(comments, c.ID, voted)
                /\ IF AdjustsPoints(c, r.user, r.up)
                   THEN Goto(w, "vote_points", r, VoteMirror(c, r.up))
                   ELSE Return(w, "ok", VoteMirror(c, r.up))
    /\ UNCHANGED <<postsComments, commentReplies, userNoComments, userPoints,
                   postNoComments, envVars>>

\* Comment.Vote: incrementUserPoints(c.AuthorID, 1), then the goroutine of the
\* new-votes notification is started (same condition), then return nil.
VotePoints(w) ==
    /\ pc[w] = "vote_points"
    /\ incrementUserPoints(obj[w].AuthorID, 1)
    /\ tasks' = tasks (+) SetToBag({Task("new_votes", obj[w].AuthorID, obj[w].ID)})
    /\ Return(w, "ok", obj[w])
    /\ UNCHANGED <<comments, commentVotes, nextVoteID, postsComments, commentReplies,
                   userNoComments, postNoComments, postLocked, clock, userRecords>>

\* Comment.DeleteVote up to the read of the ledger row.
DeleteVoteBegin(w, user) ==
    /\ pc[w] = "loaded"
    /\ IF VoteChecks(obj[w]) # ""
       THEN Return(w, VoteChecks(obj[w]), obj[w])
       ELSE Goto(w, "dv_read", [NoReq EXCEPT !.user = user], obj[w])
    /\ UNCHANGED <<dbVars, envVars>>

\* SELECT id, up FROM comment_votes WHERE comment_id = ? AND user_id = ?
DeleteVoteRead(w) ==
    /\ pc[w] = "dv_read"
    /\ LET rows == VoteRows(obj[w].ID, req[w].user)
       IN  IF rows = {} THEN Return(w, "sql.ErrNoRows", obj[w])
           ELSE LET v == CHOOSE v \in rows : TRUE
                IN  Goto(w, "dv_tx", [req[w] EXCEPT !.id = v.id, !.up = v.up], obj[w])
    /\ UNCHANGED <<dbVars, envVars>>

\* The transaction of Comment.DeleteVote and the in-memory mirror after it.
DeleteVoteTx(w) ==
    /\ pc[w] = "dv_tx"
    /\ LET c == obj[w]
           r == req[w]
           unvoted(row) == DeleteVoteSet(row, r.up)
       IN  /\ commentVotes' = {v \in commentVotes : v.id # r.id}
           /\ comments' = UpdateComment(comments, c.ID, unvoted)
           /\ IF AdjustsPoints(c, r.user, r.up)
              THEN Goto(w, "dv_points", r, DeleteVoteMirror(c, r.up))
              ELSE Return(w, "ok", DeleteVoteMirror(c, r.up))
    /\ UNCHANGED <<nextVoteID, postsComments, commentReplies, userNoComments, userPoints,
                   postNoComments, envVars>>

\* Comment.DeleteVote: incrementUserPoints(c.AuthorID, -1), then return nil.
DeleteVotePoints(w) ==
    /\ pc[w] = "dv_points"
    /\ incrementUserPoints(obj[w].AuthorID, -1)
    /\ Return(w, "ok", obj[w])
    /\ UNCHANGED <<comments, commentVotes, nextVoteID, postsComments, commentReplies,
                   userNoComments, postNoComments, envVars>>

\* Comment.ChangeVote up to the read of the ledger row.
ChangeVoteBegin(w, user, up) ==
    /\ pc[w] = "loaded"
    /\ IF VoteChecks(obj[w]) # ""
       THEN Return(w, VoteChecks(obj[w]), obj[w])
       ELSE Goto(w, "cv_read", [NoReq EXCEPT !.user = user, !.up = up], obj[w])
    /\ UNCHANGED <<dbVars, envVars>>

\* SELECT id, up FROM comment_votes ..., and the dbUp == up return.
ChangeVoteRead(w) ==
    /\ pc[w] = "cv_read"
    /\ LET rows == VoteRows(obj[w].ID, req[w].user)
       IN  IF rows = {} THEN Return(w, "sql.ErrNoRows", obj[w])
           ELSE LET v == CHOOSE v \in rows : TRUE
                IN  IF v.up = req[w].up THEN Return(w, "ok", obj[w])
                    ELSE Goto(w, "cv_tx", [req[w] EXCEPT !.id = v.id, !.dbUp = v.up],
                              obj[w])
    /\ UNCHANGED <<dbVars, envVars>>

\* UPDATE comment_votes SET up = ? WHERE id = ?
SetVoteUp(rows, id, up) ==
    {IF v.id = id THEN [v EXCEPT !.up = up] ELSE v : v \in rows}

\* The transaction of Comment.ChangeVote and the in-memory mirror after it.
ChangeVoteTx(w) ==
    /\ pc[w] = "cv_tx"
    /\ LET c == obj[w]
           r == req[w]
           changed(row) == ChangeVoteSet(row, r.dbUp)
       IN  /\ commentVotes' = SetVoteUp(commentVotes, r.id, r.up)
           /\ comments' = UpdateComment(comments, c.ID, changed)
           /\ IF c.AuthorID # r.user
              THEN Goto(w, "cv_points", r, ChangeVoteMirror(c, r.dbUp, r.up))
              ELSE Return(w, "ok", ChangeVoteMirror(c, r.dbUp, r.up))
    /\ UNCHANGED <<nextVoteID, postsComments, commentReplies, userNoComments, userPoints,
                   postNoComments, envVars>>

\* Comment.ChangeVote: incrementUserPoints(c.AuthorID, +1 or -1), then return nil.
ChangeVotePoints(w) ==
    /\ pc[w] = "cv_points"
    /\ incrementUserPoints(obj[w].AuthorID, IF req[w].dbUp THEN -1 ELSE 1)
    /\ Return(w, "ok", obj[w])
    /\ UNCHANGED <<comments, commentVotes, nextVoteID, postsComments, commentReplies,
                   userNoComments, postNoComments, envVars>>

(* ------------------- Delete, Save, ChangeUserGroup -------------------- *)

\* Mutant of AuthorityCheck: the moderator tier is taken on the caller's word.
AuthorityCheckModsUnverified(c, user, g, selfCheck) ==
    IF g = UserGroupNormal THEN (IF selfCheck /\ c.AuthorID # user THEN "errNotAuthor" ELSE "")
    ELSE IF g = UserGroupMods THEN ""
    ELSE IF g = UserGroupAdmins THEN (IF ~UserAdmin(user) THEN "errNotAdmin" ELSE "")
    ELSE "errInvalidUserGroup"

\* The authority switch of Delete and ChangeUserGroup: "" when the actor holds
\* the tier g.  Delete checks authorship for the self tier (selfCheck);
\* ChangeUserGroup has checked it before the switch.  The moderator and admin
\* lookups read data no request of this model writes, so they take no step of
\* their own.
AuthorityCheck(c, user, g, selfCheck) ==
    IF g = UserGroupNormal THEN (IF selfCheck /\ c.AuthorID # user THEN "errNotAuthor" ELSE "")
    ELSE IF g = UserGroupMods THEN (IF ~UserMod(user) THEN "errNotMod" ELSE "")
    ELSE IF g = UserGroupAdmins THEN (IF ~UserAdmin(user) THEN "errNotAdmin" ELSE "")
    ELSE "errInvalidUserGroup"

\* Mutant of DeleteSet: the deletion also resets the tallies.
DeleteSetResetsTallies(row, now, user, g) ==
    [row EXCEPT !.body = <<>>, !.deleted_at = now, !.deleted_by = user, !.deleted_as = g,
                !.upvotes = 0, !.downvotes = 0, !.points = 0]

\* UPDATE comments SET body = "", deleted_at = ?, deleted_by = ?, deleted_as = ?
\* WHERE id = ?
DeleteSet(row, now, user, g) ==
    [row EXCEPT !.body = <<>>, !.deleted_at = now, !.deleted_by = user, !.deleted_as = g]

\* time.Now(): not before the last value it returned.
Now(t) == t \in Times /\ t >= clock /\ clock' = t

\* Comment.Delete up to its transaction: c.Deleted(), the authority switch with its
\* lookup (UserMod or GetUser), then now := time.Now().
DeleteBegin(w, user, g, now) ==
    /\ pc[w] = "loaded"
    /\ LET c == obj[w]
       IN  IF Deleted(c)
           THEN /\ Return(w, "errCommentDeleted", c)
                /\ UNCHANGED clock
           ELSE IF AuthorityCheck(c, user, g, TRUE) # ""
           THEN /\ Return(w, AuthorityCheck(c, user, g, TRUE), c)
                /\ UNCHANGED clock
           ELSE /\ Now(now)
                /\ Goto(w, "del_tx", [NoReq EXCEPT !.user = user, !.g = g, !.now = now], c)
    /\ UNCHANGED <<dbVars, postLocked, tasks, userRecords>>

\* The transaction of Comment.Delete, and the in-memory update after it
\* (comment.go:415-418).
DeleteTx(w) ==
    /\ pc[w] = "del_tx"
    /\ LET c == obj[w]
           r == req[w]
           deleted(row) == DeleteSet(row, r.now, r.user, r.g)
       IN  /\ comments' = UpdateComment(comments, c.ID, deleted)
           /\ postsComments' = postsComments \ {<<c.ID, c.AuthorID>>}
           /\ userNoComments' = [userNoComments EXCEPT ![c.AuthorID] = @ - 1]
           /\ Goto(w, "del_reports", r,
                   stripDeletedInfo([c EXCEPT !.DeletedAt = r.now,
                                              !.DeletedBy = r.user,
                                              !.DeletedAs = r.g]))
    /\ UNCHANGED <<commentVotes, nextVoteID, commentReplies, userPoints, postNoComments,
                   envVars>>

\* Comment.Delete: RemoveAllReportsOfComment (its result is not looked at), then
\* return nil.
DeleteReports(w) ==
    /\ pc[w] = "del_reports"
    /\ Return(w, "ok", obj[w])
    /\ UNCHANGED <<dbVars, envVars>>

\* Comment.Delete when the moderator or admin lookup returns an error: the error is
\* returned before anything is written.
DeleteLookupFails(w, user, g) ==
    /\ pc[w] = "loaded"
    /\ ~Deleted(obj[w])
    /\ g \in {UserGroupMods, UserGroupAdmins}
    /\ Return(w, "lookup-error", obj[w])
    /\ UNCHANGED <<dbVars, envVars>>

\* Comment.ChangeUserGroup when the moderator or admin lookup returns an error.
ChangeUserGroupLookupFails(w, author, g) ==
    /\ pc[w] = "loaded"
    /\ obj[w].AuthorID = author
    /\ obj[w].PostedAs # g
    /\ g \in {UserGroupMods, UserGroupAdmins}
    /\ Return(w, "lookup-error", obj[w])
    /\ UNCHANGED <<dbVars, envVars>>

\* UPDATE comments SET body = ?, edited_at = ? WHERE id = ? AND deleted_at IS NULL
SaveSet(row, body, now) ==
    IF row.deleted_at = 0 THEN [row EXCEPT !.body = body, !.edited_at = now] ELSE row

\* Comment.Save up to its UPDATE, for a comment whose Body the caller has set to
\* body: the checks, the truncation of c.Body, then now := time.Now().
SaveBegin(w, user, body, now) ==
    /\ pc[w] = "loaded"
    /\ LET c == obj[w]
           truncated == TruncateUnicodeString(body, maxCommentBodyLength)
       IN  IF Deleted(c)
           THEN /\ Return(w, "errCommentDeleted", [c EXCEPT !.Body = body])
                /\ UNCHANGED clock
           ELSE IF c.AuthorID # user
           THEN /\ Return(w, "errNotAuthor", [c EXCEPT !.Body = body])
                /\ UNCHANGED clock
           ELSE /\ Now(now)
                /\ Goto(w, "save_exec", [NoReq EXCEPT !.user = user, !.now = now],
                        [c EXCEPT !.Body = truncated])
    /\ UNCHANGED <<dbVars, postLocked, tasks, userRecords>>

\* The UPDATE of Comment.Save; when it returns no error the edit time is set in
\* memory.
SaveExec(w) ==
    /\ pc[w] = "save_exec"
    /\ LET c == obj[w]
           saved(row) == SaveSet(row, c.Body, req[w].now)
       IN  /\ comments' = UpdateComment(comments, c.ID, saved)
           /\ Return(w, "ok", [c EXCEPT !.EditedAt = req[w].now])
    /\ UNCHANGED <<commentVotes, nextVoteID, postsComments, commentReplies,
                   userNoComments, userPoints, postNoComments, envVars>>

\* UPDATE comments SET user_group = ? WHERE id = ? AND deleted_at IS NULL
UserGroupSet(row, g) ==
    IF row.deleted_at = 0 THEN [row EXCEPT !.user_group = g] ELSE row

\* Comment.ChangeUserGroup up to its UPDATE: the author check, the no-change
\* return, and the authority switch with its lookup.
ChangeUserGroupBegin(w, author, g) ==
    /\ pc[w] = "loaded"
    /\ LET c == obj[w]
       IN  IF c.AuthorID # author THEN Return(w, "errNotAuthor", c)
           ELSE IF c.PostedAs = g THEN Return(w, "ok", c)
           ELSE IF AuthorityCheck(c, author, g, FALSE) # ""
           THEN Return(w, AuthorityCheck(c, author, g, FALSE), c)
           ELSE Goto(w, "cug_exec", [NoReq EXCEPT !.user = author, !.g = g], c)
    /\ UNCHANGED <<dbVars, envVars>>

\* The UPDATE of Comment.ChangeUserGroup; when it returns no error the tier is set in
\* memory.
ChangeUserGroupExec(w) ==
    /\ pc[w] = "cug_exec"
    /\ LET c == obj[w]
           regrouped(row) == UserGroupSet(row, req[w].g)
       IN  /\ comments' = UpdateComment(comments, c.ID, regrouped)
           /\ Return(w, "ok", [c EXCEPT !.PostedAs = req[w].g])
    /\ UNCHANGED <<commentVotes, nextVoteID, postsComments, commentReplies,
                   userNoComments, userPoints, postNoComments, envVars>>

(* --------------------------- the environment -------------------------- *)

\* The post is locked or unlocked by its moderators (IsPostLocked reads this).
SetPostLocked(b) ==
    /\ postLocked # b
    /\ postLocked' = b
    /\ ret' = NoRet
    /\ UNCHANGED <<dbVars, clock, tasks, userRecords, pc, obj, req>>

\* A detached notification task runs: the notification is created, or the task
\* fails and the failure is logged.
Notify(t, ok) ==
    /\ BagIn(t, tasks)
    /\ t.done = "pending"
    /\ tasks' = (tasks (-) SetToBag({t}))
                   (+) SetToBag({[t EXCEPT !.done = IF ok THEN "ok" ELSE "err"]})
    /\ ret' = NoRet
    /\ UNCHANGED <<dbVars, postLocked, clock, userRecords, pc, obj, req>>

\* The account of user u is removed: the author lookup returns no record for it.
RemoveUser(u) ==
    /\ u \in userRecords
    /\ userRecords' = userRecords \ {u}
    /\ ret' = NoRet
    /\ UNCHANGED <<dbVars, postLocked, clock, tasks, pc, obj, req>>

(* -------------------------- specifications --------------------------- *)

Viewers == {ZeroID} \cup Users

\* No Vote is followed outside RoundTripSpec.
Keep == UNCHANGED snap

\* The bounds of the specifications are conditions on the sending of requests; a
\* request that is running is never held back.
\* An addComment that goes on is sent while the store has room for its row.
HasRoom(w, maxN) == pc'[w] # "idle" => Len(comments) + Cardinality(Adding) < maxN
\* A vote method that passes its checks is sent while the counters are in range.
InRange(w) == pc'[w] # "idle" => CountersInRange
\* A Vote that passes its checks is sent while the ledger has room for its row.
LedgerRoom(w) ==
    pc'[w] # "idle" =>
        (nextVoteID + Cardinality(At("vote_tx")) <= MaxVoteRows /\ CountersInRange)

\* The requests run one at a time once loaded: no other worker is in the middle
\* of a method or of addComment.
Alone(w) ==
    \A v \in Workers \ {w} : pc[v] \in {"idle", "loaded"} \/ req[v].cont = "load"

\* AddComment, GetComment and Delete by the author, on a tree of comments, any
\* interleaving.
TreeNext ==
    \/ \E w \in Workers, author \in Users, parentID \in 0..MaxTreeComments :
          AddCommentBegin(w, author, parentID, <<"a">>) /\ HasRoom(w, MaxTreeComments) /\ Keep
    \/ \E w \in Workers : AddCommentTx(w) /\ Keep
    \/ \E w \in Workers : AddCommentGet(w) /\ Keep
    \/ \E w \in Workers : GetCommentAuthors(w) /\ Keep
    \/ \E w \in Workers, id \in 1..MaxTreeComments : Load(w, id, ZeroID) /\ Keep
    \/ \E w \in Workers, user \in Users :
          DeleteBegin(w, user, UserGroupNormal, clock) /\ Keep
    \/ \E w \in Workers : DeleteTx(w) /\ Keep
    \/ \E w \in Workers : DeleteReports(w) /\ Keep

TreeSpec == Init /\ [][TreeNext]_vars

\* Concurrent AddComment requests alone.
\* The store of AddSpec has room for a chain down to the maximum depth and one
\* comment more.
MaxAddComments == maxCommentDepth + 2

AddNext ==
    \/ \E w \in Workers, parentID \in 0..MaxAddComments, body \in Bodies :
          AddCommentBegin(w, 1, parentID, body) /\ HasRoom(w, MaxAddComments) /\ Keep
    \/ \E w \in Workers : AddCommentTx(w) /\ Keep
    \/ \E w \in Workers : AddCommentGet(w) /\ Keep
    \/ \E w \in Workers : GetCommentAuthors(w) /\ Keep

AddSpec == Init /\ [][AddNext]_vars

\* Concurrent Vote requests on fresh comments.
VoteNext ==
    \/ \E w \in Workers, author \in Users :
          AddCommentBegin(w, author, ZeroID, <<"a">>) /\ HasRoom(w, MaxComments) /\ Keep
    \/ \E w \in Workers : AddCommentTx(w) /\ Keep
    \/ \E w \in Workers : AddCommentGet(w) /\ Keep
    \/ \E w \in Workers : GetCommentAuthors(w) /\ Keep
    \/ \E w \in Workers, id \in 1..MaxComments, viewer \in Viewers :
          Load(w, id, viewer) /\ Keep
    \/ \E w \in Workers : GetCommentMutes(w) /\ Keep
    \/ \E w \in Workers, user \in Users, up \in BOOLEAN : VoteBegin(w, user, up) /\ LedgerRoom(w) /\ Keep
    \/ \E w \in Workers : VoteTx(w) /\ Keep
    \/ \E w \in Workers : VotePoints(w) /\ Keep

VoteSpec == Init /\ [][VoteNext]_vars

\* Concurrent Vote, DeleteVote and ChangeVote requests of user 2 on a comment of
\* user 1.
LedgerNext ==
    \/ \E w \in Workers : AddCommentBegin(w, 1, ZeroID, <<"a">>) /\ HasRoom(w, MaxComments) /\ Keep
    \/ \E w \in Workers : AddCommentTx(w) /\ Keep
    \/ \E w \in Workers : AddCommentGet(w) /\ Keep
    \/ \E w \in Workers : GetCommentAuthors(w) /\ Keep
    \/ \E w \in Workers, id \in 1..MaxComments : Load(w, id, ZeroID) /\ Keep
    \/ \E w \in Workers, up \in BOOLEAN : VoteBegin(w, 2, up) /\ LedgerRoom(w) /\ Keep
    \/ \E w \in Workers : VoteTx(w) /\ Keep
    \/ \E w \in Workers : VotePoints(w) /\ Keep
    \/ \E w \in Workers : DeleteVoteBegin(w, 2) /\ InRange(w) /\ Keep
    \/ \E w \in Workers : DeleteVoteRead(w) /\ Keep
    \/ \E w \in Workers : DeleteVoteTx(w) /\ Keep
    \/ \E w \in Workers : DeleteVotePoints(w) /\ Keep
    \/ \E w \in Workers, up \in BOOLEAN : ChangeVoteBegin(w, 2, up) /\ InRange(w) /\ Keep
    \/ \E w \in Workers : ChangeVoteRead(w) /\ Keep
    \/ \E w \in Workers : ChangeVoteTx(w) /\ Keep
    \/ \E w \in Workers : ChangeVotePoints(w) /\ Keep

LedgerSpec == Init /\ [][LedgerNext]_vars

\* Who may delete the comment of user 1: its author, or the moderator.
Deleters == {<<1, UserGroupNormal>>, <<2, UserGroupMods>>}

\* Every mutating request on a comment of user 1, voted on by user 2.  Workers load
\* their comment at any time, so a request may run on a comment loaded before
\* another request committed; the methods themselves run one at a time.
StaleNext ==
    \/ \E w \in Workers, id \in 1..MaxComments : Load(w, id, ZeroID) /\ Keep
    \/ \E w \in Workers :
          Alone(w) /\ AddCommentBegin(w, 1, ZeroID, <<"a">>) /\ HasRoom(w, MaxComments) /\ Keep
    \/ \E w \in Workers : AddCommentTx(w) /\ Keep
    \/ \E w \in Workers : AddCommentGet(w) /\ Keep
    \/ \E w \in Workers : GetCommentAuthors(w) /\ Keep
    \/ \E w \in Workers, up \in BOOLEAN : Alone(w) /\ VoteBegin(w, 2, up) /\ LedgerRoom(w) /\ Keep
    \/ \E w \in Workers : VoteTx(w) /\ Keep
    \/ \E w \in Workers : VotePoints(w) /\ Keep
    \/ \E w \in Workers : Alone(w) /\ DeleteVoteBegin(w, 2) /\ InRange(w) /\ Keep
    \/ \E w \in Workers : DeleteVoteRead(w) /\ Keep
    \/ \E w \in Workers : DeleteVoteTx(w) /\ Keep
    \/ \E w \in Workers : DeleteVotePoints(w) /\ Keep
    \/ \E w \in Workers, up \in BOOLEAN : Alone(w) /\ ChangeVoteBegin(w, 2, up) /\ InRange(w) /\ Keep
    \/ \E w \in Workers : ChangeVoteRead(w) /\ Keep
    \/ \E w \in Workers : ChangeVoteTx(w) /\ Keep
    \/ \E w \in Workers : ChangeVotePoints(w) /\ Keep
    \/ \E w \in Workers, a \in Deleters :
          Alone(w) /\ DeleteBegin(w, a[1], a[2], clock) /\ Keep
    \/ \E w \in Workers : DeleteTx(w) /\ Keep
    \/ \E w \in Workers : DeleteReports(w) /\ Keep
    \/ \E w \in Workers : Alone(w) /\ SaveBegin(w, 1, <<"b">>, clock) /\ Keep
    \/ \E w \in Workers : SaveExec(w) /\ Keep
    \/ \E w \in Workers : Alone(w) /\ ChangeUserGroupBegin(w, 1, UserGroupAdmins) /\ Keep
    \/ \E w \in Workers : ChangeUserGroupExec(w) /\ Keep

StaleSpec == Init /\ [][StaleNext]_vars

\* One worker, one request at a time: the vote methods with every input, Delete by
\* the author, and the post being locked and unlocked.
SeqNext ==
    \/ \E id \in 1..MaxComments, viewer \in Viewers : Load("w1", id, viewer) /\ Keep
    \/ GetCommentMutes("w1") /\ Keep
    \/ \E author \in Users :
          AddCommentBegin("w1", author, ZeroID, <<"a">>) /\ HasRoom("w1", MaxComments) /\ Keep
    \/ AddCommentTx("w1") /\ Keep
    \/ AddCommentGet("w1") /\ Keep
    \/ GetCommentAuthors("w1") /\ Keep
    \/ \E user \in Users, up \in BOOLEAN : VoteBegin("w1", user, up) /\ LedgerRoom("w1") /\ Keep
    \/ VoteTx("w1") /\ Keep
    \/ VotePoints("w1") /\ Keep
    \/ \E user \in Users : DeleteVoteBegin("w1", user) /\ InRange("w1") /\ Keep
    \/ DeleteVoteRead("w1") /\ Keep
    \/ DeleteVoteTx("w1") /\ Keep
    \/ DeleteVotePoints("w1") /\ Keep
    \/ \E user \in Users, up \in BOOLEAN : ChangeVoteBegin("w1", user, up) /\ InRange("w1") /\ Keep
    \/ ChangeVoteRead("w1") /\ Keep
    \/ ChangeVoteTx("w1") /\ Keep
    \/ ChangeVotePoints("w1") /\ Keep
    \/ \E user \in Users : DeleteBegin("w1", user, UserGroupNormal, clock) /\ Keep
    \/ DeleteTx("w1") /\ Keep
    \/ DeleteReports("w1") /\ Keep
    \/ \E b \in BOOLEAN : pc["w1"] \in {"idle", "loaded"} /\ SetPostLocked(b) /\ Keep
    \/ IsPostLockedFails("w1") /\ Keep

SeqSpec == Init /\ [][SeqNext]_vars

\* A round trip of one user's vote on one comment, followed by the history variable
\* snap: the ledger, the comment's tallies and the reputation points as the Vote
\* found them (phase "voting" while the Vote runs, "voted" until the same user's
\* DeleteVote has succeeded, then "done"), and whether every reputation adjustment
\* of the round trip was applied (synced).  Any other request on the ledger ends
\* the round trip that is followed.
Track(user) ==
    [phase |-> "voting", user |-> user, comment |-> obj["w1"].ID, votes |-> commentVotes,
     upvotes |-> comments[obj["w1"].ID].upvotes,
     downvotes |-> comments[obj["w1"].ID].downvotes,
     points |-> comments[obj["w1"].ID].points,
     userPoints |-> userPoints, synced |-> TRUE]
Hold == snap' = IF snap.phase = "voted" THEN snap ELSE NoSnap
HoldFor(user) ==
    snap' = IF snap.phase = "voted" /\ snap.user = user /\ snap.comment = obj["w1"].ID
            THEN snap ELSE NoSnap
Adjusted == snap.synced /\ userPoints' # userPoints

RoundTripNext ==
    \/ \E id \in 1..MaxComments, viewer \in Viewers : Load("w1", id, viewer) /\ Hold
    \/ \E author \in Users :
          AddCommentBegin("w1", author, ZeroID, <<"a">>) /\ HasRoom("w1", MaxComments) /\ Hold
    \/ AddCommentTx("w1") /\ Hold
    \/ AddCommentGet("w1") /\ Hold
    \/ GetCommentMutes("w1") /\ Hold
    \/ GetCommentAuthors("w1") /\ Hold
    \/ \E user \in Users, up \in BOOLEAN :
          /\ VoteBegin("w1", user, up) /\ LedgerRoom("w1")
          /\ snap' = IF pc'["w1"] = "vote_tx" THEN Track(user) ELSE NoSnap
    \/ /\ VoteTx("w1")
       /\ snap' = IF ret'["w1"].err = "already-voted" THEN NoSnap
                  ELSE IF pc'["w1"] = "vote_points" THEN snap
                  ELSE [snap EXCEPT !.phase = "voted"]
    \/ /\ VotePoints("w1")
       /\ snap' = [snap EXCEPT !.phase = "voted", !.synced = Adjusted]
    \/ \E user \in Users : DeleteVoteBegin("w1", user) /\ InRange("w1") /\ HoldFor(user)
    \/ DeleteVoteRead("w1") /\ Hold
    \/ /\ DeleteVoteTx("w1")
       /\ snap' = IF snap.phase # "voted" THEN NoSnap
                  ELSE IF pc'["w1"] = "dv_points" THEN snap
                  ELSE [snap EXCEPT !.phase = "done"]
    \/ /\ DeleteVotePoints("w1")
       /\ snap' = IF snap.phase # "voted" THEN NoSnap
                  ELSE [snap EXCEPT !.phase = "done", !.synced = Adjusted]
    \/ \E user \in Users, up \in BOOLEAN :
          ChangeVoteBegin("w1", user, up) /\ InRange("w1") /\ HoldFor(user)
    \/ ChangeVoteRead("w1") /\ Hold
    \/ ChangeVoteTx("w1") /\ Hold
    \/ /\ ChangeVotePoints("w1")
       /\ snap' = IF snap.phase # "voted" THEN NoSnap
                  ELSE [snap EXCEPT !.synced = Adjusted]
    \/ \E user \in Users : DeleteBegin("w1", user, UserGroupNormal, clock) /\ Hold
    \/ DeleteTx("w1") /\ Hold
    \/ DeleteReports("w1") /\ Hold
    \/ \E b \in BOOLEAN : pc["w1"] \in {"idle", "loaded"} /\ SetPostLocked(b) /\ Hold

RoundTripSpec == Init /\ [][RoundTripNext]_vars

\* One worker: a comment and a reply by either user, votes of user 2, reads by any
\* viewer, and Delete by the author or by the moderator.
MaxDeleteComments == MaxComments + 1

DeleteNext ==
    \/ \E author \in Users, parentID \in 0..MaxDeleteComments :
          AddCommentBegin("w1", author, parentID, <<"a">>) /\ HasRoom("w1", MaxDeleteComments) /\ Keep
    \/ AddCommentTx("w1") /\ Keep
    \/ AddCommentGet("w1") /\ Keep
    \/ GetCommentAuthors("w1") /\ Keep
    \/ \E id \in 1..MaxDeleteComments, viewer \in Viewers : Load("w1", id, viewer) /\ Keep
    \/ GetCommentMutes("w1") /\ Keep
    \/ Respond("w1") /\ Keep
    \/ \E up \in BOOLEAN : VoteBegin("w1", 2, up) /\ LedgerRoom("w1") /\ Keep
    \/ VoteTx("w1") /\ Keep
    \/ VotePoints("w1") /\ Keep
    \/ \E user \in Users, g \in {UserGroupNormal, UserGroupMods} :
          DeleteBegin("w1", user, g, clock) /\ Keep
    \/ DeleteTx("w1") /\ Keep
    \/ DeleteReports("w1") /\ Keep

DeleteSpec == Init /\ [][DeleteNext]_vars

\* One worker: root comments by either user, and Delete by any actor under any tier
\* value, with lookups that may fail.
AuthNext ==
    \/ \E author \in Users :
          AddCommentBegin("w1", author, ZeroID, <<"a">>) /\ HasRoom("w1", MaxDeleteComments) /\ Keep
    \/ AddCommentTx("w1") /\ Keep
    \/ AddCommentGet("w1") /\ Keep
    \/ GetCommentAuthors("w1") /\ Keep
    \/ \E id \in 1..MaxDeleteComments : Load("w1", id, ZeroID) /\ Keep
    \/ \E user \in Users, g \in UserGroups, now \in Times :
          DeleteBegin("w1", user, g, now) /\ Keep
    \/ DeleteTx("w1") /\ Keep
    \/ DeleteReports("w1") /\ Keep
    \/ \E user \in Users, g \in UserGroups : DeleteLookupFails("w1", user, g) /\ Keep
    \/ \E author \in Users, g \in UserGroups :
          ChangeUserGroupBegin("w1", author, g) /\ Keep
    \/ ChangeUserGroupExec("w1") /\ Keep
    \/ \E author \in Users, g \in UserGroups :
          ChangeUserGroupLookupFails("w1", author, g) /\ Keep
    \/ StatementFails("w1") /\ Keep

AuthSpec == Init /\ [][AuthNext]_vars

\* One worker adds comments and replies, votes as user 2 and deletes as the author,
\* while the notification tasks it has started run (and succeed or fail) at any time.
NotifyNext ==
    \/ \E author \in Users, parentID \in 0..MaxDeleteComments :
          AddCommentBegin("w1", author, parentID, <<"a">>) /\ HasRoom("w1", MaxDeleteComments) /\ Keep
    \/ AddCommentTx("w1") /\ Keep
    \/ AddCommentGet("w1") /\ Keep
    \/ GetCommentAuthors("w1") /\ Keep
    \/ \E id \in 1..MaxDeleteComments : Load("w1", id, ZeroID) /\ Keep
    \/ \E up \in BOOLEAN : VoteBegin("w1", 2, up) /\ LedgerRoom("w1") /\ Keep
    \/ VoteTx("w1") /\ Keep
    \/ VotePoints("w1") /\ Keep
    \/ \E user \in Users : DeleteBegin("w1", user, UserGroupNormal, clock) /\ Keep
    \/ DeleteTx("w1") /\ Keep
    \/ DeleteReports("w1") /\ Keep
    \/ \E t \in BagToSet(tasks), ok \in BOOLEAN : Notify(t, ok) /\ Keep
    \/ StatementFails("w1") /\ Keep

NotifySpec == Init /\ [][NotifyNext]_vars

\* Two workers: comments and replies of user 1 with either body, votes of user 2 and
\* Delete by the author, interleaved at every round trip.
FreshNext ==
    \/ \E w \in Workers, parentID \in 0..MaxDeleteComments, body \in Bodies :
          AddCommentBegin(w, 1, parentID, body) /\ HasRoom(w, MaxDeleteComments) /\ Keep
    \/ \E w \in Workers : AddCommentTx(w) /\ Keep
    \/ \E w \in Workers : AddCommentGet(w) /\ Keep
    \/ \E w \in Workers : GetCommentAuthors(w) /\ Keep
    \/ \E w \in Workers, id \in 1..MaxDeleteComments : Load(w, id, ZeroID) /\ Keep
    \/ \E w \in Workers, up \in BOOLEAN : VoteBegin(w, 2, up) /\ LedgerRoom(w) /\ Keep
    \/ \E w \in Workers : VoteTx(w) /\ Keep
    \/ \E w \in Workers : VotePoints(w) /\ Keep
    \/ \E w \in Workers : DeleteBegin(w, 1, UserGroupNormal, clock) /\ Keep
    \/ \E w \in Workers : DeleteTx(w) /\ Keep
    \/ \E w \in Workers : DeleteReports(w) /\ Keep

FreshSpec == Init /\ [][FreshNext]_vars

\* One worker adds root comments of either user, reads them for any viewer and deletes
\* them as the author, while user accounts are removed.
LookupNext ==
    \/ \E author \in Users :
          AddCommentBegin("w1", author, ZeroID, <<"a">>) /\ HasRoom("w1", MaxDeleteComments) /\ Keep
    \/ AddCommentTx("w1") /\ Keep
    \/ AddCommentGet("w1") /\ Keep
    \/ GetCommentAuthors("w1") /\ Keep
    \/ \E id \in 1..MaxDeleteComments, viewer \in Viewers : Load("w1", id, viewer) /\ Keep
    \/ GetCommentMutes("w1") /\ Keep
    \/ Respond("w1") /\ Keep
    \/ \E user \in Users : DeleteBegin("w1", user, UserGroupNormal, clock) /\ Keep
    \/ DeleteTx("w1") /\ Keep
    \/ DeleteReports("w1") /\ Keep
    \/ \E u \in Users : RemoveUser(u) /\ Keep
    \/ LoadFails("w1") /\ Keep
    \/ GetCommentFails("w1") /\ Keep

LookupSpec == Init /\ [][LookupNext]_vars

(* ------------------------------ claims -------------------------------- *)

\* The ancestor path a row stores.
RowAncestors(row) == IF row.ancestors = <<>> THEN <<>> ELSE JSONUnmarshal(row.ancestors)

\* The ledger rows of a comment, and those of one direction.
RowsOf(id) == {v \in commentVotes : v.comment_id = id}
RowsOfUp(id, up) == {v \in RowsOf(id) : v.up = up}

\* C1: in every reachable state there is at most one ledger row per (comment,
\* voter), and every comment's upvotes is the number of its up rows, its downvotes
\* the number of its down rows, and its points upvotes - downvotes.
C1_LedgerMatchesTallies ==
    \A id \in CommentIDs :
        /\ \A u \in Users : Cardinality(VoteRows(id, u)) <= 1
        /\ comments[id].upvotes = Cardinality(RowsOfUp(id, TRUE))
        /\ comments[id].downvotes = Cardinality(RowsOfUp(id, FALSE))
        /\ comments[id].points = comments[id].upvotes - comments[id].downvotes

\* The columns and ledger rows of comment id that deletion freezes, as a step
\* leaves them.
FrozenUnchanged(id) ==
    /\ comments'[id].body = comments[id].body
    /\ comments'[id].edited_at = comments[id].edited_at
    /\ comments'[id].upvotes = comments[id].upvotes
    /\ comments'[id].downvotes = comments[id].downvotes
    /\ comments'[id].points = comments[id].points
    /\ comments'[id].deleted_at = comments[id].deleted_at
    /\ comments'[id].deleted_by = comments[id].deleted_by
    /\ comments'[id].deleted_as = comments[id].deleted_as
    /\ {v \in commentVotes' : v.comment_id = id} = RowsOf(id)

\* C2: once a comment's Delete has committed, no later step changes its body, edit
\* time, tallies, points, deletion columns or ledger rows.
C2_DeletedIsFrozen ==
    [][\A id \in CommentIDs : comments[id].deleted_at # 0 => FrozenUnchanged(id)]_vars

\* C3: after N successful Vote requests on fresh comments, up + down rows number N
\* (the ledger's auto-increment has advanced N times), every comment's upvotes +
\* downvotes is the number of its rows, points = upvotes - downvotes, no (comment,
\* voter) has two rows, and a Vote that finds its user's row fails and changes
\* nothing in the store.
C3_VotesCounted ==
    \A id \in CommentIDs :
        /\ \A u \in Users : Cardinality(VoteRows(id, u)) <= 1
        /\ comments[id].upvotes = Cardinality(RowsOfUp(id, TRUE))
        /\ comments[id].downvotes = Cardinality(RowsOfUp(id, FALSE))
        /\ comments[id].upvotes + comments[id].downvotes = Cardinality(RowsOf(id))
        /\ comments[id].points = comments[id].upvotes - comments[id].downvotes
C3_OneVotePerUser ==
    \A w \in Workers :
        (VoteTx(w) /\ VoteRows(obj[w].ID, req[w].user) # {})
            => (ret'[w].err = "already-voted" /\ UNCHANGED dbVars)
C3_ConcurrentVotes ==
    /\ [](C3_VotesCounted /\ Cardinality(commentVotes) = nextVoteID - 1)
    /\ [][C3_OneVotePerUser]_vars
\* Two votes of different directions, sent while the other was in progress, have
\* both been counted.
C3_Witness ==
    \E id \in CommentIDs :
        /\ comments[id].upvotes = 1 /\ comments[id].downvotes = 1
        /\ Cardinality(RowsOf(id)) = 2
        /\ \E w \in Workers : ret[w].err = "ok"

\* C4: for every comment, direct replies <= total replies, direct replies is the
\* number of comments whose parent it is, and total replies is the number of
\* comments whose ancestor path contains it.
C4_ReplyCounters ==
    \A id \in CommentIDs :
        /\ comments[id].no_replies_direct <= comments[id].no_replies
        /\ comments[id].no_replies_direct =
              Cardinality({j \in CommentIDs : comments[j].parent_id = id})
        /\ comments[id].no_replies =
              Cardinality({j \in CommentIDs : id \in Range(RowAncestors(comments[j]))})
\* A comment has a reply and a reply to that reply, and a comment is deleted.
C4_Witness ==
    /\ \E id \in CommentIDs :
          comments[id].no_replies = 2 /\ comments[id].no_replies_direct = 1
    /\ \E id \in CommentIDs : comments[id].deleted_at # 0

\* C5: a comment without a parent has depth 0 and an empty ancestor path; a comment
\* with parent p has depth(p) + 1 and the ancestor path of p followed by p.
C5_DepthAndAncestors ==
    \A id \in CommentIDs :
        LET row == comments[id]
            p == row.parent_id
        IN  IF p = ZeroID
            THEN row.depth = 0 /\ row.ancestors = <<>>
            ELSE /\ p \in CommentIDs
                 /\ row.depth = comments[p].depth + 1
                 /\ RowAncestors(row) = Append(RowAncestors(comments[p]), p)
\* A comment two levels below a root exists.
C5_Witness ==
    \E id \in CommentIDs : comments[id].depth = 2 /\ Len(RowAncestors(comments[id])) = 2

\* The step is the SELECT of addComment's parent read, for a parent that exists.
AddCommentBeginsOn(w, parentID) ==
    /\ parentID \in CommentIDs
    /\ \E author \in Users, body \in Bodies :
          AddCommentBegin(w, author, parentID, body)

\* The step is the last query of addComment's parent read, after which the parent is
\* checked.
ParentRead(w) == GetCommentAuthors(w) /\ req[w].cont = "parent"

\* The step is the last query of addComment's closing read, after which addComment
\* returns.
NewRead(w) == GetCommentAuthors(w) /\ req[w].cont = "new"

\* C6: AddComment on a parent at the maximum depth returns the max-depth error and
\* changes nothing in the store; on a parent one level shallower it goes on to
\* insert a row at the maximum depth and returns nil; no comment is ever deeper than
\* the maximum.
C6_Step ==
    \A w \in Workers :
        /\ \A parentID \in 1..MaxAddComments :
              AddCommentBeginsOn(w, parentID) =>
                 /\ pc'[w] = "get_authors"
                 /\ obj'[w].Depth = comments[parentID].depth
                 /\ UNCHANGED dbVars
        /\ ParentRead(w) =>
              /\ obj[w].Depth = maxCommentDepth
                    => (ret'[w].err = "comment-max-depth-reached" /\ UNCHANGED dbVars)
              /\ obj[w].Depth = maxCommentDepth - 1
                    => (pc'[w] = "add_tx" /\ ret'[w].err = "")
        /\ AddCommentTx(w) =>
              /\ Len(comments') = Len(comments) + 1
              /\ comments'[Len(comments')].depth =
                    (IF req[w].parent.ID = ZeroID THEN 0 ELSE req[w].parent.Depth + 1)
        /\ NewRead(w) => ret'[w].err = "ok"
C6_MaxDepth ==
    /\ [](\A id \in CommentIDs : comments[id].depth <= maxCommentDepth)
    /\ [][C6_Step]_vars
\* A reply was rejected for depth while a comment at the maximum depth exists.
C6_Witness ==
    /\ \E w \in Workers : ret[w].err = "comment-max-depth-reached"
    /\ \E id \in CommentIDs : comments[id].depth = maxCommentDepth

\* C7: the transaction of an AddComment with parent X adds 1 to X's direct-reply
\* counter and 1 to the reply counter of every ancestor of X, and changes neither
\* counter of any comment other than X and its ancestors; without a parent it
\* changes no comment's counters.
C7_Step ==
    \A w \in Workers :
        AddCommentTx(w) =>
            LET X == req[w].parent.ID
                anc == IF X = ZeroID THEN {} ELSE Range(RowAncestors(comments[X]))
                touched == IF X = ZeroID THEN {} ELSE anc \cup {X}
            IN  /\ X # ZeroID =>
                      comments'[X].no_replies_direct = comments[X].no_replies_direct + 1
                /\ \A a \in anc : comments'[a].no_replies = comments[a].no_replies + 1
                /\ \A id \in CommentIDs \ touched :
                      /\ comments'[id].no_replies = comments[id].no_replies
                      /\ comments'[id].no_replies_direct = comments[id].no_replies_direct
C7_AddCommentCounters == [][C7_Step]_vars
\* A reply to a comment that has an ancestor has just been inserted: the parent's
\* direct counter and the totals of the parent and of its ancestor were raised.
C7_Witness ==
    \E w \in Workers :
        /\ pc[w] = "add_get"
        /\ req[w].parent.Depth = 1
        /\ Len(comments) = MaxTreeComments

\* The request of the single worker starts as a Vote of a user who has a ledger row on
\* the comment.
HolderVotes ==
    \E user \in Users, up \in BOOLEAN :
        VoteBegin("w1", user, up) /\ VoteRows(obj["w1"].ID, user) # {}

\* C8 as stated: a Vote by a user who holds a vote record on the comment returns the
\* already-voted error and changes nothing (store, in-memory comment, reputation).
C8_Step ==
    /\ HolderVotes =>
          /\ ret'["w1"].err \in {"", "already-voted"}
          /\ obj["w1"] = IF pc'["w1"] = "idle" THEN ret'["w1"].c ELSE obj'["w1"]
          /\ UNCHANGED dbVars
    /\ (VoteTx("w1") /\ VoteRows(obj["w1"].ID, req["w1"].user) # {}) =>
          /\ ret'["w1"].err = "already-voted"
          /\ ret'["w1"].c = obj["w1"]
          /\ UNCHANGED dbVars
C8_HolderVoteRejected == [][C8_Step]_vars

\* C8 amended: on an active comment of an unlocked post, a Vote by a user who holds a
\* vote record on the comment returns the already-voted error and changes nothing
\* (store, in-memory comment, reputation); on a deleted comment or a locked post it
\* returns that check's error instead, and changes nothing either.
C8_AmendedStep ==
    /\ HolderVotes =>
          /\ IF Deleted(obj["w1"]) THEN ret'["w1"].err = "errCommentDeleted"
             ELSE IF postLocked THEN ret'["w1"].err = "errPostLocked"
             ELSE pc'["w1"] = "vote_tx" /\ ret'["w1"].err = ""
          /\ obj["w1"] = IF pc'["w1"] = "idle" THEN ret'["w1"].c ELSE obj'["w1"]
          /\ UNCHANGED dbVars
    /\ (VoteTx("w1") /\ VoteRows(obj["w1"].ID, req["w1"].user) # {}) =>
          /\ ret'["w1"].err = "already-voted"
          /\ ret'["w1"].c = obj["w1"]
          /\ UNCHANGED dbVars
C8_ActiveHolderVoteRejected == [][C8_AmendedStep]_vars
\* A holder's second Vote has just been rejected.
C8_Witness ==
    /\ ret["w1"].err = "already-voted"
    /\ ret["w1"].c.ID \in CommentIDs
    /\ VoteRows(ret["w1"].c.ID, 2) # {}

\* The comment the request of the single worker has in memory when the step is over.
ObjAfter == IF pc'["w1"] = "idle" THEN ret'["w1"].c ELSE obj'["w1"]

\* C9: a sequential ChangeVote(d) on an active comment of an unlocked post goes on
\* to read the user's record; without a record it returns an error and changes
\* nothing; with a record of direction d it returns nil and changes nothing; with a
\* record of the other direction it flips that record in place, moves 1 from the old
\* direction's tally to the new one's and the points by 2, in the store and in
\* memory, and returns nil.
C9_Step ==
    /\ \A user \in Users, up \in BOOLEAN :
          (ChangeVoteBegin("w1", user, up) /\ ~Deleted(obj["w1"]) /\ ~postLocked) =>
              /\ pc'["w1"] = "cv_read"
              /\ obj'["w1"] = obj["w1"]
              /\ UNCHANGED dbVars
    /\ ChangeVoteRead("w1") =>
          LET rows == VoteRows(obj["w1"].ID, req["w1"].user)
          IN  /\ UNCHANGED dbVars
              /\ ObjAfter = obj["w1"]
              /\ Cardinality(rows) <= 1
              /\ rows = {} => (pc'["w1"] = "idle" /\ ret'["w1"].err \notin {"", "ok"})
              /\ \A v \in rows :
                    IF v.up = req["w1"].up THEN ret'["w1"].err = "ok"
                    ELSE pc'["w1"] = "cv_tx"
    /\ ChangeVoteTx("w1") =>
          LET id == obj["w1"].ID
              d == req["w1"].up
              rows == VoteRows(id, req["w1"].user)
              sign == IF d THEN 1 ELSE -1
          IN  /\ \A v \in rows : v.up # d
              /\ commentVotes' = (commentVotes \ rows) \cup {[v EXCEPT !.up = d] : v \in rows}
              /\ comments'[id].upvotes = comments[id].upvotes + sign
              /\ comments'[id].downvotes = comments[id].downvotes - sign
              /\ comments'[id].points = comments[id].points + 2 * sign
              /\ ObjAfter.Upvotes = obj["w1"].Upvotes + sign
              /\ ObjAfter.Downvotes = obj["w1"].Downvotes - sign
              /\ ObjAfter.Points = obj["w1"].Points + 2 * sign
              /\ pc'["w1"] = "idle" => ret'["w1"].err = "ok"
    /\ ChangeVotePoints("w1") =>
          /\ ret'["w1"].err = "ok"
          /\ ret'["w1"].c = obj["w1"]
          /\ UNCHANGED <<comments, commentVotes>>
C9_ChangeVote == [][C9_Step]_vars
\* An up vote has been flipped to a down vote on a comment that had only that vote.
C9_Witness ==
    /\ pc["w1"] = "cv_points"
    /\ req["w1"].dbUp
    /\ comments[obj["w1"].ID].upvotes = 0
    /\ comments[obj["w1"].ID].downvotes = 1
    /\ comments[obj["w1"].ID].points = -1

\* The ledger and the tallies of the comment are as the round trip's Vote found them.
LedgerRestored ==
    /\ commentVotes = snap.votes
    /\ comments[snap.comment].upvotes = snap.upvotes
    /\ comments[snap.comment].downvotes = snap.downvotes
    /\ comments[snap.comment].points = snap.points

\* A DeleteVote of a user without a ledger row on the comment returns an error and
\* changes nothing.
DeleteVoteWithoutRecord ==
    /\ \A user \in Users :
          (DeleteVoteBegin("w1", user) /\ VoteRows(obj["w1"].ID, user) = {}) =>
              /\ ret'["w1"].err # "ok"
              /\ pc'["w1"] \in {"idle", "dv_read"}
              /\ pc'["w1"] = "idle" => ret'["w1"].err # ""
              /\ ObjAfter = obj["w1"]
              /\ UNCHANGED dbVars
    /\ (DeleteVoteRead("w1") /\ VoteRows(obj["w1"].ID, req["w1"].user) = {}) =>
          /\ pc'["w1"] = "idle"
          /\ ret'["w1"].err \notin {"", "ok"}
          /\ ret'["w1"].c = obj["w1"]
          /\ UNCHANGED dbVars

\* C10 as stated: a successful Vote, then ChangeVotes, then a successful DeleteVote of
\* the same user restore the ledger, the comment's upvotes, downvotes and points and
\* the reputation points; a DeleteVote without a record returns an error and changes
\* nothing.
C10_RoundTrip ==
    /\ [](snap.phase = "done" => (LedgerRestored /\ userPoints = snap.userPoints))
    /\ [][DeleteVoteWithoutRecord]_vars

\* C11: a successful Delete leaves the comment's id, parent id, depth, ancestor path,
\* reply counters, upvotes, downvotes and points, every other comment, the post's
\* comment counter and the vote ledger as they were; it changes only the comment's
\* body and deletion columns, the author's profile-activity entry and the author's
\* total-comment counter (in its transaction; its other steps change nothing).
C11_Step ==
    /\ DeleteTx("w1") =>
        LET id == obj["w1"].ID
            author == comments[id].user_id
        IN  /\ comments'[id] = [comments[id] EXCEPT
                                   !.body = comments'[id].body,
                                   !.deleted_at = comments'[id].deleted_at,
                                   !.deleted_by = comments'[id].deleted_by,
                                   !.deleted_as = comments'[id].deleted_as]
            /\ Len(comments') = Len(comments)
            /\ \A j \in CommentIDs \ {id} : comments'[j] = comments[j]
            /\ UNCHANGED <<postNoComments, commentVotes, nextVoteID, commentReplies,
                           userPoints>>
            /\ postsComments' = postsComments \ {<<id, author>>}
            /\ \A u \in Users \ {author} : userNoComments'[u] = userNoComments[u]
    /\ (\E user \in Users, g \in UserGroups, now \in Times :
           DeleteBegin("w1", user, g, now)) => UNCHANGED dbVars
    /\ DeleteReports("w1") => (ret'["w1"].err = "ok" /\ UNCHANGED dbVars)
C11_DeleteFrame == [][C11_Step]_vars
\* A reply with a vote on it has just been deleted.
C11_Witness ==
    /\ ret["w1"].err = "ok"
    /\ ret["w1"].c.ID \in CommentIDs
    /\ ret["w1"].c.DeletedAt # 0
    /\ comments[ret["w1"].c.ID].parent_id # ZeroID
    /\ comments[ret["w1"].c.ID].upvotes = 1
    /\ RowsOf(ret["w1"].c.ID) # {}

\* C12: a Delete on an active comment returns nil only when the tier is verified (self:
\* the actor is the author; moderator: the moderator lookup is true; admin: the
\* admin flag is true); any other tier value gives the invalid-authority error; a
\* failed check or lookup leaves the store and the in-memory comment unchanged.
C12_Step ==
    /\ \A user \in Users, g \in UserGroups, now \in Times :
          (DeleteBegin("w1", user, g, now) /\ ~Deleted(obj["w1"])) =>
              /\ pc'["w1"] = "del_tx" =>
                    \/ g = UserGroupNormal /\ user = obj["w1"].AuthorID
                    \/ g = UserGroupMods /\ UserMod(user)
                    \/ g = UserGroupAdmins /\ UserAdmin(user)
              /\ g \notin {UserGroupNormal, UserGroupMods, UserGroupAdmins}
                    => ret'["w1"].err = "errInvalidUserGroup"
              /\ pc'["w1"] # "del_tx" =>
                    /\ pc'["w1"] = "idle"
                    /\ ret'["w1"].err \notin {"", "ok"}
                    /\ ret'["w1"].c = obj["w1"]
              /\ UNCHANGED dbVars
    /\ \A user \in Users, g \in UserGroups :
          DeleteLookupFails("w1", user, g) =>
              /\ ret'["w1"].err \notin {"", "ok"}
              /\ UNCHANGED dbVars
              /\ ret'["w1"].c = obj["w1"]
    /\ (pc["w1"] # "del_tx" /\ pc'["w1"] = "del_tx") =>
          \E user \in Users, g \in UserGroups, now \in Times :
              DeleteBegin("w1", user, g, now)
    /\ (pc'["w1"] = "del_reports" /\ pc["w1"] # "del_reports") => DeleteTx("w1")
    /\ (DeleteReports("w1") \/ (StatementFails("w1") /\ pc["w1"] = "del_tx")) =>
          /\ UNCHANGED dbVars
          /\ ret'["w1"].c = obj["w1"]
          /\ ret'["w1"].err = "ok" <=> pc["w1"] = "del_reports"
C12_DeleteAuthority == [][C12_Step]_vars
\* A Delete under the moderator tier by a user who is no moderator has just failed.
C12_Witness ==
    /\ ret["w1"].err = "errNotMod"
    /\ ret["w1"].c.ID \in CommentIDs
    /\ comments[ret["w1"].c.ID].deleted_at = 0

\* The in-memory comment c shows nothing of its author, body or viewer votes.
Redacted(c) ==
    /\ c.Body = <<"[Deleted comment]">>
    /\ c.AuthorID = ZeroID
    /\ c.AuthorUsername = "Hidden"
    /\ c.PostedAs = UserGroupNaN
    /\ c.Author = ZeroID
    /\ ~c.ViewerVoted.Valid
    /\ ~c.ViewerVotedUp.Valid

\* The in-memory comment c has the id, links and counters of its persisted row.
MatchesRow(c) ==
    /\ c.ID \in CommentIDs
    /\ c.ParentID = comments[c.ID].parent_id
    /\ c.Ancestors = RowAncestors(comments[c.ID])
    /\ c.Depth = comments[c.ID].depth
    /\ c.NumReplies = comments[c.ID].no_replies
    /\ c.NumRepliesDirect = comments[c.ID].no_replies_direct
    /\ c.Upvotes = comments[c.ID].upvotes
    /\ c.Downvotes = comments[c.ID].downvotes
    /\ c.Points = comments[c.ID].points

\* C13: every deleted comment a retrieval has returned, and the in-memory comment a
\* successful Delete leaves, shows the placeholder body, no author id, the hidden
\* username, no posted-as tier, no author record and no viewer vote flags, and has
\* the id, parent id, ancestor path, depth and counters of the persisted row.
C13_DeletedIsRedacted ==
    /\ (pc["w1"] = "loaded" /\ Deleted(obj["w1"]))
          => (Redacted(obj["w1"]) /\ MatchesRow(obj["w1"]))
    /\ (ret["w1"].err = "ok" /\ Deleted(ret["w1"].c))
          => (Redacted(ret["w1"].c) /\ MatchesRow(ret["w1"].c))
\* A deleted reply that has a vote has been read.
C13_Witness ==
    /\ pc["w1"] = "loaded"
    /\ Deleted(obj["w1"])
    /\ obj["w1"].ParentID # ZeroID
    /\ obj["w1"].Upvotes = 1
    /\ VoteRows(obj["w1"].ID, 2) # {}

\* The step adds delta to the reputation points of the author of the worker's
\* comment, or the adjustment failed and the points are as they were.
AppliedOrFailed(delta) ==
    \/ userPoints' = [userPoints EXCEPT ![obj["w1"].AuthorID] = @ + delta]
    \/ userPoints' = userPoints

\* The transactions and reads of the vote methods leave the reputation points alone,
\* and a ChangeVote that flips a record adjusts them by +1 (to up) or -1 (to down)
\* unless the actor is the author.
C14_Common ==
    /\ (VoteTx("w1") \/ DeleteVoteTx("w1") \/ ChangeVoteTx("w1") \/ DeleteVoteRead("w1")
          \/ ChangeVoteRead("w1")) => userPoints' = userPoints
    /\ ChangeVoteTx("w1") =>
          (pc'["w1"] = "cv_points" <=> obj["w1"].AuthorID # req["w1"].user)
    /\ ChangeVotePoints("w1") =>
          /\ obj["w1"].AuthorID # req["w1"].user
          /\ AppliedOrFailed(IF req["w1"].up THEN 1 ELSE -1)

\* C14 as stated: every successful Vote and DeleteVote of a user other than the
\* author is followed by a reputation adjustment, +1 for an added upvote or a removed
\* downvote and -1 for an added downvote or a removed upvote; the author's own votes
\* adjust nothing.
C14_Step ==
    /\ C14_Common
    /\ (VoteTx("w1") /\ comments' # comments) =>
          (pc'["w1"] = "vote_points" <=> obj["w1"].AuthorID # req["w1"].user)
    /\ VotePoints("w1") => AppliedOrFailed(IF req["w1"].up THEN 1 ELSE -1)
    /\ DeleteVoteTx("w1") =>
          (pc'["w1"] = "dv_points" <=> obj["w1"].AuthorID # req["w1"].user)
    /\ DeleteVotePoints("w1") => AppliedOrFailed(IF req["w1"].up THEN -1 ELSE 1)
C14_SignedDeltas == [][C14_Step]_vars

\* C14 amended: only up votes count for reputation.  A successful Vote(up) of a user
\* other than the author is followed by an adjustment of +1 and a DeleteVote of such
\* a user's up record by one of -1; a direction-changing ChangeVote by +1 (to up) or
\* -1 (to down); a Vote(down) and a DeleteVote of a down record adjust nothing; the
\* author's own votes adjust nothing.
C14_AmendedStep ==
    /\ C14_Common
    /\ (VoteTx("w1") /\ comments' # comments) =>
          (pc'["w1"] = "vote_points"
              <=> (req["w1"].up /\ obj["w1"].AuthorID # req["w1"].user))
    /\ VotePoints("w1") => (req["w1"].up /\ AppliedOrFailed(1))
    /\ DeleteVoteTx("w1") =>
          (pc'["w1"] = "dv_points"
              <=> (req["w1"].up /\ obj["w1"].AuthorID # req["w1"].user))
    /\ DeleteVotePoints("w1") => (req["w1"].up /\ AppliedOrFailed(-1))
C14_UpvoteDeltas == [][C14_AmendedStep]_vars
\* The author has one point for another user's upvote and none for the own downvote.
C14_Witness ==
    /\ ret["w1"].err = "ok"
    /\ \E id \in CommentIDs :
          /\ comments[id].user_id = 1
          /\ \E v \in VoteRows(id, 2) : v.up
          /\ \E v \in VoteRows(id, 1) : ~v.up
          /\ userPoints[1] = 1

\* The notification tasks the step has started.
Started == {t \in BagToSet(tasks' (-) tasks) : t.done = "pending"}

\* C15: a notification task is started only in the step that has committed the insert
\* of the comment it names, or after the Vote's transaction has committed the up vote
\* it announces; a step that returns an error starts none; every task names a
\* comment that is in the store; a task that runs, whether it succeeds or fails,
\* changes neither the store nor any request (its position, its comment, its locals).
C15_Step ==
    /\ Started # {} =>
          \/ /\ AddCommentTx("w1")
             /\ Len(comments') = Len(comments) + 1
             /\ \A t \in Started :
                   t.kind \in {"reply", "new_comment"} /\ t.comment = Len(comments')
          \/ /\ VotePoints("w1")
             /\ \E v \in VoteRows(obj["w1"].ID, req["w1"].user) : v.up
             /\ ret'["w1"].err = "ok"
             /\ \A t \in Started : t.kind = "new_votes" /\ t.comment = obj["w1"].ID
    /\ ret'["w1"].err \notin {"", "ok"} => Started = {}
    /\ (\E t \in BagToSet(tasks), ok \in BOOLEAN : Notify(t, ok)) =>
          UNCHANGED <<dbVars, pc, obj, req>>
C15_NotifyAfterCommit ==
    /\ [](\A t \in BagToSet(tasks) : t.comment \in CommentIDs)
    /\ [][C15_Step]_vars
\* A request returned nil while one of the tasks started so far has failed, one has
\* succeeded and one has not run.
C15_Witness ==
    /\ ret["w1"].err = "ok"
    /\ \E t \in BagToSet(tasks) : t.done = "err"
    /\ \E t \in BagToSet(tasks) : t.done = "ok"
    /\ \E t \in BagToSet(tasks) : t.done = "pending" /\ t.kind = "new_votes"

\* The comment c that addComment returns for the request with locals r is the one
\* submitted: the truncated body, depth and ancestor path from the parent, counters
\* zero, active.
FreshComment(c, r) ==
    /\ c.ID = r.id
    /\ c.Body = r.body
    /\ Len(c.Body) <= maxCommentBodyLength
    /\ \E body \in Bodies : c.Body = TruncateUnicodeString(body, maxCommentBodyLength)
    /\ c.Depth = (IF r.parent.ID = ZeroID THEN 0 ELSE r.parent.Depth + 1)
    /\ c.ParentID = r.parent.ID
    /\ c.Ancestors = (IF r.parent.ID = ZeroID THEN <<>>
                      ELSE Append(r.parent.Ancestors, r.parent.ID))
    /\ c.NumReplies = 0 /\ c.NumRepliesDirect = 0
    /\ c.Upvotes = 0 /\ c.Downvotes = 0 /\ c.Points = 0
    /\ ~Deleted(c)

\* The step in which addComment returns: the last query of its closing read.
AddCommentReturns(w) ==
    /\ AddCommentGet(w) \/ NewRead(w)
    /\ pc'[w] = "idle"

\* C16 as stated: the comment AddComment returns (the GetComment of the new id) has
\* the truncated body, the depth and ancestor path computed from the parent, zero
\* counters and is active, whatever other workers do between the insert and the read.
C16_Step ==
    \A w \in Workers :
        AddCommentReturns(w) =>
            /\ ret'[w].err = "ok"
            /\ FreshComment(ret'[w].c, req[w])
C16_AddThenGet == [][C16_Step]_vars

\* C16 amended: the same, provided no other request has committed a change to the new
\* comment's row (a vote on it, a reply under it, its deletion) between the insert
\* and the SELECT of the read.
C16_AmendedStep ==
    \A w \in Workers :
        /\ (AddCommentGet(w)
              /\ comments[req[w].id] = NewCommentRow(req[w].id, req[w].user, req[w].parent,
                                                     req[w].ancestors, req[w].body))
              => (pc'[w] = "get_authors" /\ FreshComment(obj'[w], req[w]))
        /\ NewRead(w) =>
              /\ ret'[w].err = "ok"
              /\ ret'[w].c = [obj[w] EXCEPT !.Author = ret'[w].c.Author]
C16_AddThenGetUndisturbed == [][C16_AmendedStep]_vars
\* AddComment has returned a reply whose submitted body was over the limit.
C16_Witness ==
    \E w \in Workers :
        /\ ret[w].err = "ok"
        /\ ret[w].c.Depth = 1
        /\ ret[w].c.Body = [i \in 1..maxCommentBodyLength |-> "b"]
        /\ ret[w].c.NumReplies = 0
        /\ ret[w].c.ID = Len(comments)

\* The in-memory comment c carries the record of its author.
HasAuthor(c) == c.Author # ZeroID /\ c.Author = c.AuthorID

\* C17: every comment that is not deleted and that a retrieval has returned carries a
\* non-empty author record whose id is the comment's author id (a retrieval that
\* cannot resolve the author fails instead of returning the comment).
C17_AuthorResolved ==
    /\ (pc["w1"] = "loaded" /\ ~Deleted(obj["w1"])) => HasAuthor(obj["w1"])
    /\ (ret["w1"].err = "ok" /\ ret["w1"].c.ID # ZeroID /\ ~Deleted(ret["w1"].c))
          => HasAuthor(ret["w1"].c)

\* The number of stored comments of user u that are not deleted.
ActiveCommentsOf(u) ==
    Cardinality({id \in DOMAIN comments :
                    comments[id].user_id = u /\ comments[id].deleted_at = 0})

\* C18: each user's comment counter equals the number of that user's stored comments
\* that are not deleted, in every state, whatever comments are added and deleted.
C18_CounterMatchesComments ==
    \A u \in Users : userNoComments[u] = ActiveCommentsOf(u)

\* C19: a transaction of AddComment that stores a reply finds the parent not deleted
\* in the store, so no reply is ever created under a deleted comment.
C19_Step ==
    \A w \in Workers :
        (AddCommentTx(w) /\ req[w].parent.ID # ZeroID)
            => comments[req[w].parent.ID].deleted_at = 0

C19_NoReplyUnderDeleted == [][C19_Step]_vars

\* The stored row of comment id as it would be had user a written the comment.
RowWrittenBy(id, a) == [comments[id] EXCEPT !.user_id = a, !.username = Username(a)]

\* C20: what a retrieval returns to a viewer for a deleted comment is the same
\* whoever wrote the comment (an author the viewer has muted or any other user), and
\* the author-muted flag of the returned deleted comment is not set.
C20_DeletedHidesAuthor ==
    \A id \in DOMAIN comments, viewer \in Viewers, a \in Users :
        comments[id].deleted_at # 0 =>
            /\ scanComments(comments[id], viewer) = scanComments(RowWrittenBy(id, a), viewer)
            /\ ~scanComments(comments[id], viewer).IsAuthorMuted

====
